---- MODULE Spec2Model ----
(***************************************************************************)
(* A model of the RV32I emulator: memory.rs, regs.rs, pc.rs,               *)
(* inst_format.rs, inst.rs and cpu.rs.                                     *)
(*                                                                         *)
(* Representation of a u32.  TLC's integers are 32-bit signed, so a u32    *)
(* is held as the two's-complement integer with the same 32 bits: the u32  *)
(* value u is the integer u when u < 2^31 and u - 2^32 otherwise           *)
(* (0xFFFFFFFF is -1, 0x80000000 is -2^31).  This is Rust's `u as i32`.    *)
(* Every operation below is written on that representation so that its     *)
(* result is the representation of the u32 the Rust operation yields.      *)
(***************************************************************************)
EXTENDS Integers, Sequences, FiniteSets, TLC

VARIABLES
    pc,          \* Cpu.pc: ProgramCounter(u32)
    regs,        \* Cpu.regs: Registers([u32; 32]), the stored slots 0..31
    mem,         \* Cpu.mem: Memory([u8; MEM_SIZE]), held sparsely: the non-zero bytes
    phase,       \* position in Cpu::run / Cpu::emulate_cycle
    cycle,       \* the loop counter of Cpu::run
    fetched_pc,  \* the local `pc` of ProgramCounter::inc / Cpu::fetch
    raw_inst,    \* the local `raw_inst` of Cpu::emulate_cycle
    inst,        \* the local `inst` of Cpu::emulate_cycle (the decoded instruction)
    result,      \* what Cpu::run returned (or the panic that ended it)
    lastStep,    \* history: the step that produced this state
    before,      \* history: pc, regs and mem when the current cycle (or call) began
    calls,       \* history: the number of calls a caller of the public API has made
    lastArg,     \* history: the register and value of the caller's last regs.write
    loaded       \* history: the vector given to the last load_program

vars == <<pc, regs, mem, phase, cycle, fetched_pc, raw_inst, inst, result, lastStep,
          before, calls, lastArg, loaded>>

---------------------------------------------------------------------------
(* Program constants *)

\* memory.rs: pub const MEM_SIZE: usize = 1024 * 128
MEM_SIZE == 131072

\* cpu.rs: the syscall number of exit, compared with register 17
EXIT_SYSCALL == 93

\* cpu.rs: the register holding the syscall number (a7)
SYSCALL_REG == 17

\* cpu.rs: the register holding the exit code (a0)
EXIT_CODE_REG == 10

\* regs.rs: the stack pointer, initialised to MEM_SIZE
SP_REG == 2

\* pc.rs: the length of an instruction in bytes
INST_LEN == 4

---------------------------------------------------------------------------
(* 32-bit words *)

\* the largest i32, 0x7FFFFFFF, and the smallest, the word 0x80000000
MaxI32 == 2147483647
MinI32 == -MaxI32 - 1

\* The upper and lower halves of a word: w = Hi(w) * 65536 + Lo(w),
\* Hi(w) in -32768..32767 and Lo(w) in 0..65535.
Hi(w) == w \div 65536
Lo(w) == w % 65536

\* The word whose bits 16..31 are the low 16 bits of hi and whose bits 0..15 are lo.
Word(hi, lo) == ((((hi % 65536) + 32768) % 65536) - 32768) * 65536 + lo

\* u32::wrapping_add
wrapping_add(a, b) ==
    LET l == Lo(a) + Lo(b)
    IN  Word(Hi(a) + Hi(b) + (l \div 65536), l % 65536)

\* u32::wrapping_sub
wrapping_sub(a, b) ==
    LET l == Lo(a) - Lo(b)
    IN  Word(Hi(a) - Hi(b) + (l \div 65536), l % 65536)

\* a < b for u32 (the representation orders negatives above non-negatives)
ULt(a, b) == IF (a < 0) = (b < 0) THEN a < b ELSE b < 0

\* a <= b for u32
ULe(a, b) == a = b \/ ULt(a, b)

\* (a as i32) < (b as i32)
SLt(a, b) == a < b

\* u32 << n, n in 0..31: the bits shifted out are dropped
Shl(a, n) ==
    IF n < 16
    THEN LET l == Lo(a) * (2 ^ n)
         IN  Word((Hi(a) % 65536) * (2 ^ n) + (l \div 65536), l % 65536)
    ELSE Word(Lo(a) * (2 ^ (n - 16)), 0)

\* i32 >> n, n in 0..31: the sign bit is replicated
Sar(a, n) == IF n = 31 THEN (IF a < 0 THEN -1 ELSE 0) ELSE a \div (2 ^ n)

\* u32 >> n, n in 0..31: zeros are shifted in
Shr(a, n) ==
    IF n = 0 \/ a >= 0
    THEN Sar(a, n)
    ELSE (Sar(a, n) + 2 ^ (31 - n)) + 2 ^ (31 - n)

\* One bit of a bitwise operation.
BitOf(op, x, y) ==
    CASE op = "and" -> IF x = 1 /\ y = 1 THEN 1 ELSE 0
      [] op = "or"  -> IF x = 1 \/ y = 1 THEN 1 ELSE 0
      [] op = "xor" -> IF x # y THEN 1 ELSE 0

\* A bitwise operation on the low n bits of two non-negative integers.
RECURSIVE BitsOf(_, _, _, _)
BitsOf(op, x, y, n) ==
    IF n = 0 THEN 0
    ELSE BitOf(op, x % 2, y % 2) + 2 * BitsOf(op, x \div 2, y \div 2, n - 1)

\* u32::bitand, u32::bitor, u32::bitxor
Bitwise(op, a, b) ==
    Word(BitsOf(op, Hi(a) % 65536, Hi(b) % 65536, 16), BitsOf(op, Lo(a), Lo(b), 16))

\* `w as u8`
AsU8(w) == w % 256

---------------------------------------------------------------------------
(* inst_format.rs: get_bits! and the five formats with fields *)

\* get_bits!(n, from, to) with the default type usize: n is zero-extended to
\* 64 bits, masked with ((1 << range) - 1) << from and shifted right by from.
get_bits(n, from, to) == (n \div (2 ^ from)) % (2 ^ (to - from + 1))

\* get_bits!(n, from, to, i32): the mask is an i32, so with to = 31 the mask
\* keeps the sign bit and the right shift is arithmetic (the field comes out
\* sign-extended); with to < 31 the masked value is non-negative.
get_bits_i32(n, from, to) ==
    IF to = 31 THEN Sar(n, from)
    ELSE (n \div (2 ^ from)) % (2 ^ (to - from + 1))

\* `a | b` on i32 values
BitOrI32(a, b) == Bitwise("or", a, b)

\* An instruction format's fields; the fields a format lacks are 0.
Format(rd, funct3, rs1, rs2, funct7, imm) ==
    [rd |-> rd, funct3 |-> funct3, rs1 |-> rs1, rs2 |-> rs2, funct7 |-> funct7, imm |-> imm]

\* Faulty variant of RFormat::new: rd takes the six bits 7..12.
RFormat_wide_rd(raw) ==
    Format(get_bits(raw, 7, 12), get_bits(raw, 12, 14), get_bits(raw, 15, 19),
           get_bits(raw, 20, 24), get_bits(raw, 25, 31), 0)

\* RFormat::new
RFormat(raw) ==
    Format(get_bits(raw, 7, 11), get_bits(raw, 12, 14), get_bits(raw, 15, 19),
           get_bits(raw, 20, 24), get_bits(raw, 25, 31), 0)

\* Faulty variant of IFormat::new: the immediate is not sign-extended.
IFormat_zero_extended(raw) ==
    Format(get_bits(raw, 7, 11), get_bits(raw, 12, 14), get_bits(raw, 15, 19),
           0, 0, get_bits(raw, 20, 31))

\* IFormat::new
IFormat(raw) ==
    Format(get_bits(raw, 7, 11), get_bits(raw, 12, 14), get_bits(raw, 15, 19),
           0, 0, get_bits_i32(raw, 20, 31))

\* SFormat::new
SFormat(raw) ==
    LET imm_lo == get_bits_i32(raw, 7, 11)
        imm_hi == get_bits_i32(raw, 25, 31)
    IN  Format(0, get_bits(raw, 12, 14), get_bits(raw, 15, 19), get_bits(raw, 20, 24), 0,
               BitOrI32(Shl(imm_hi, 5), imm_lo))

\* Faulty variant of BFormat::new: bit 31 is taken zero-extended, so the
\* immediate is never negative.
BFormat_unsigned(raw) ==
    LET imm_11th_bit == get_bits_i32(raw, 7, 7)
        imm_lo       == get_bits_i32(raw, 8, 11)
        imm_hi       == get_bits_i32(raw, 25, 30)
        imm_12th_bit == IF raw < 0 THEN 1 ELSE 0
    IN  Format(0, get_bits(raw, 12, 14), get_bits(raw, 15, 19), get_bits(raw, 20, 24), 0,
               BitOrI32(BitOrI32(Shl(imm_12th_bit, 12), Shl(imm_11th_bit, 11)),
                        BitOrI32(Shl(imm_hi, 5), Shl(imm_lo, 1))))

\* BFormat::new
BFormat(raw) ==
    LET imm_11th_bit == get_bits_i32(raw, 7, 7)
        imm_lo       == get_bits_i32(raw, 8, 11)
        imm_hi       == get_bits_i32(raw, 25, 30)
        imm_12th_bit == get_bits_i32(raw, 31, 31)
    IN  Format(0, get_bits(raw, 12, 14), get_bits(raw, 15, 19), get_bits(raw, 20, 24), 0,
               BitOrI32(BitOrI32(Shl(imm_12th_bit, 12), Shl(imm_11th_bit, 11)),
                        BitOrI32(Shl(imm_hi, 5), Shl(imm_lo, 1))))

\* JFormat::new
JFormat(raw) ==
    LET imm_hi       == get_bits_i32(raw, 12, 19)
        imm_11th_bit == get_bits_i32(raw, 20, 20)
        imm_lo       == get_bits_i32(raw, 21, 30)
        imm_20th_bit == get_bits_i32(raw, 31, 31)
    IN  Format(get_bits(raw, 7, 11), 0, 0, 0, 0,
               BitOrI32(BitOrI32(Shl(imm_20th_bit, 20), Shl(imm_hi, 12)),
                        BitOrI32(Shl(imm_11th_bit, 11), Shl(imm_lo, 1))))

\* UFormat::new
UFormat(raw) ==
    Format(get_bits(raw, 7, 11), 0, 0, 0, 0, get_bits_i32(raw, 12, 31))

---------------------------------------------------------------------------
(* regs.rs *)

\* Registers::new
Registers_new == [r \in 0..31 |-> IF r = SP_REG THEN MEM_SIZE ELSE 0]

\* the assert!(reg < 32) of Registers::read and Registers::write
reg_in_range(reg) == reg < 32

\* Registers::read
regs_read(rs, reg) == IF reg = 0 THEN 0 ELSE rs[reg]

\* Faulty variant of Registers::write: index 0 is stored like any other.
regs_write_unguarded(rs, reg, val) == [rs EXCEPT ![reg] = val]

\* Registers::write
regs_write(rs, reg, val) == IF reg = 0 THEN rs ELSE [rs EXCEPT ![reg] = val]

---------------------------------------------------------------------------
(* memory.rs *)

\* Size as usize: Byte = 1, HalfWord = 2, Word = 4
SizeOfLoad(op) ==
    CASE op \in {"LB", "LBU"} -> 1
      [] op \in {"LH", "LHU"} -> 2
      [] op = "LW" -> 4

SizeOfStore(op) ==
    CASE op = "SB" -> 1
      [] op = "SH" -> 2
      [] op = "SW" -> 4

\* Memory::new: every byte 0
Memory_new == <<>>

\* The byte of the array at index a (0 <= a < MEM_SIZE).
MemByte(m, a) == IF a \in DOMAIN m THEN m[a] ELSE 0

\* The slice from..from + len of the array exists: `from + size` does not
\* overflow and the range's end is at most MEM_SIZE.  Otherwise the access
\* panics (in every build: a wrapped `to` is below `from`, which panics too).
slice_in_range(from, len) == ULe(from, MEM_SIZE - len)

\* Faulty variant of Memory::read: every size is read as unsigned.
mem_read_zero_extended(m, from, size, is_unsigned) ==
    LET b(k) == MemByte(m, from + k)
    IN  CASE size = 1 -> b(0)
          [] size = 2 -> b(1) * 256 + b(0)
          [] size = 4 -> Word(b(3) * 256 + b(2), b(1) * 256 + b(0))

\* Faulty variant of u32::to_le_bytes: the bytes in big-endian order.
be_byte(val, k) == get_bits(val, 8 * (3 - k), 8 * (3 - k) + 7)

\* Memory::read (read_mem!: from_le_bytes of the slice, then `as u32`)
mem_read(m, from, size, is_unsigned) ==
    LET b(k) == MemByte(m, from + k)
    IN  CASE size = 1 ->
               IF is_unsigned \/ b(0) < 128 THEN b(0) ELSE b(0) - 256
          [] size = 2 ->
               LET h == b(1) * 256 + b(0)
               IN  IF is_unsigned \/ h < 32768 THEN h ELSE h - 65536
          [] size = 4 -> Word(b(3) * 256 + b(2), b(1) * 256 + b(0))

\* Faulty variant of Memory::write: all four bytes of val are copied.
mem_write_word(m, from, len, val) ==
    LET range   == from .. (from + 3)
        written == [a \in (DOMAIN m) \cup range |->
                       IF a \in range THEN get_bits(val, 8 * (a - from), 8 * (a - from) + 7)
                       ELSE m[a]]
        nonzero == {a \in DOMAIN written : written[a] # 0}
    IN  [a \in nonzero |-> written[a]]

\* val.to_le_bytes()[k]
le_byte(val, k) == get_bits(val, 8 * k, 8 * k + 7)

\* Memory::write: copy_from_slice of the first len little-endian bytes of val
mem_write(m, from, len, val) ==
    LET range   == from .. (from + len - 1)
        written == [a \in (DOMAIN m) \cup range |->
                       IF a \in range THEN le_byte(val, a - from) ELSE m[a]]
        nonzero == {a \in DOMAIN written : written[a] # 0}
    IN  [a \in nonzero |-> written[a]]

\* A Vec<u8>, held sparsely as the array is: its length and its non-zero
\* bytes by index (from 0).
Vec(len, at) == [len |-> len, at |-> at]

EmptyVec == Vec(0, <<>>)

\* Faulty variant of Memory::load_program: the bytes of the array beyond the
\* vector's length are kept.
load_program_overlay(m, program) ==
    LET kept == {a \in DOMAIN program.at : a < MEM_SIZE}
        old  == {a \in DOMAIN m : a >= program.len}
    IN  [a \in kept \cup old |-> IF a \in kept THEN program.at[a] ELSE m[a]]

\* Memory::load_program: resize_with(MEM_SIZE, || 0) truncates or pads the
\* vector to MEM_SIZE bytes, which then replace the array m.
load_program(m, program) ==
    LET kept == {a \in DOMAIN program.at : a < MEM_SIZE}
    IN  [a \in kept |-> program.at[a]]

---------------------------------------------------------------------------
(* pc.rs *)

\* ProgramCounter::new
ProgramCounter_new == 0

\* `self.0 += 4` overflows u32: a panic with overflow checks (a debug
\* build), a wrap without them (a release build).
inc_overflows(p) == ULt(wrapping_add(p, INST_LEN), p)

\* Faulty variant of ProgramCounter::inc: the counter is not advanced.
inc_pc_unmoved(p) == p

\* the counter after `self.0 += 4` when it does not panic
inc_pc(p) == wrapping_add(p, INST_LEN)

\* the bound check of ProgramCounter::inc: pc > MEM_SIZE as u32 - 4
inc_invalid(p) == ULt(MEM_SIZE - INST_LEN, p)

---------------------------------------------------------------------------
(* inst.rs: the typed instruction, and cpu.rs: Cpu::decode *)

\* Inst: the format tag, the operation, the format's fields and, for a
\* SysCall::Exit, its code.
Inst(kind, op, f, code) == [kind |-> kind, op |-> op, f |-> f, code |-> code]

NoFormat == Format(0, 0, 0, 0, 0, 0)
NoInst == Inst("None", "None", NoFormat, 0)

\* Ok(inst) and Err(error) of Cpu::decode
DecodeOk(i) == [ok |-> TRUE, inst |-> i, err |-> "None", arg |-> 0, f |-> NoFormat]
DecodeErr(err, arg, f) == [ok |-> FALSE, inst |-> NoInst, err |-> err, arg |-> arg, f |-> f]

\* the match on (funct3, funct7) of opcode 0110011
decode_r(f) ==
    CASE f.funct3 = 0 /\ f.funct7 = 0  -> "ADD"
      [] f.funct3 = 0 /\ f.funct7 = 32 -> "SUB"
      [] f.funct3 = 4 /\ f.funct7 = 0  -> "XOR"
      [] f.funct3 = 6 /\ f.funct7 = 0  -> "OR"
      [] f.funct3 = 7 /\ f.funct7 = 0  -> "AND"
      [] f.funct3 = 1 /\ f.funct7 = 0  -> "SLL"
      [] f.funct3 = 5 /\ f.funct7 = 0  -> "SRL"
      [] f.funct3 = 5 /\ f.funct7 = 32 -> "SRA"
      [] f.funct3 = 2 /\ f.funct7 = 0  -> "SLT"
      [] f.funct3 = 3 /\ f.funct7 = 0  -> "SLTU"
      [] OTHER -> "Invalid"

\* Faulty variant of the match of opcode 0010011: the shifts accept any
\* upper_imm.
decode_arith_i_lenient(f) ==
    LET upper_imm == get_bits(f.imm, 5, 11)
    IN  CASE f.funct3 = 0 -> "ADDI"
          [] f.funct3 = 4 -> "XORI"
          [] f.funct3 = 6 -> "ORI"
          [] f.funct3 = 7 -> "ANDI"
          [] f.funct3 = 1 -> "SLLI"
          [] f.funct3 = 5 /\ upper_imm = 32 -> "SRAI"
          [] f.funct3 = 5 -> "SRLI"
          [] f.funct3 = 2 -> "SLTI"
          [] f.funct3 = 3 -> "SLTIU"
          [] OTHER -> "Invalid"

\* the match on (funct3, upper_imm) of opcode 0010011
decode_arith_i(f) ==
    LET upper_imm == get_bits(f.imm, 5, 11)
    IN  CASE f.funct3 = 0 -> "ADDI"
          [] f.funct3 = 4 -> "XORI"
          [] f.funct3 = 6 -> "ORI"
          [] f.funct3 = 7 -> "ANDI"
          [] f.funct3 = 1 /\ upper_imm = 0  -> "SLLI"
          [] f.funct3 = 5 /\ upper_imm = 0  -> "SRLI"
          [] f.funct3 = 5 /\ upper_imm = 32 -> "SRAI"
          [] f.funct3 = 2 -> "SLTI"
          [] f.funct3 = 3 -> "SLTIU"
          [] OTHER -> "Invalid"

\* the match on funct3 of opcode 0000011
decode_load(f) ==
    CASE f.funct3 = 0 -> "LB"
      [] f.funct3 = 1 -> "LH"
      [] f.funct3 = 2 -> "LW"
      [] f.funct3 = 4 -> "LBU"
      [] f.funct3 = 5 -> "LHU"
      [] OTHER -> "Invalid"

\* the match on funct3 of opcode 0100011
decode_store(f) ==
    CASE f.funct3 = 0 -> "SB"
      [] f.funct3 = 1 -> "SH"
      [] f.funct3 = 2 -> "SW"
      [] OTHER -> "Invalid"

\* the match on funct3 of opcode 1100011
decode_branch(f) ==
    CASE f.funct3 = 0 -> "BEQ"
      [] f.funct3 = 1 -> "BNE"
      [] f.funct3 = 4 -> "BLT"
      [] f.funct3 = 5 -> "BGE"
      [] f.funct3 = 6 -> "BLTU"
      [] f.funct3 = 7 -> "BGEU"
      [] OTHER -> "Invalid"

\* Faulty variant of the ecall arm: the exit code is not narrowed to u8.
decode_ecall_wide(rs) ==
    IF regs_read(rs, SYSCALL_REG) = EXIT_SYSCALL
    THEN Inst("SysCall", "Exit", NoFormat, regs_read(rs, EXIT_CODE_REG))
    ELSE Inst("SysCall", "Nop", NoFormat, 0)

\* the ecall arm of Cpu::decode: exit when a7 = 93, with a0 as u8
decode_ecall(rs) ==
    IF regs_read(rs, SYSCALL_REG) = EXIT_SYSCALL
    THEN Inst("SysCall", "Exit", NoFormat, AsU8(regs_read(rs, EXIT_CODE_REG)))
    ELSE Inst("SysCall", "Nop", NoFormat, 0)

\* A format's instruction, or InvalidInstFormat carrying the format.
Typed(kind, op, f) ==
    IF op = "Invalid" THEN DecodeErr("InvalidInstFormat", kind, f)
    ELSE DecodeOk(Inst(kind, op, f, 0))

\* Cpu::decode (opcodes written in decimal: 0b0110011 = 51, ...)
decode(raw, rs) ==
    LET opcode == get_bits(raw, 0, 6)
    IN  CASE opcode = 51  -> Typed("R", decode_r(RFormat(raw)), RFormat(raw))
          [] opcode = 19  -> Typed("I", decode_arith_i(IFormat(raw)), IFormat(raw))
          [] opcode = 3   -> Typed("I", decode_load(IFormat(raw)), IFormat(raw))
          [] opcode = 103 -> Typed("I", IF IFormat(raw).funct3 = 0 THEN "JALR" ELSE "Invalid",
                                   IFormat(raw))
          [] opcode = 35  -> Typed("S", decode_store(SFormat(raw)), SFormat(raw))
          [] opcode = 99  -> Typed("B", decode_branch(BFormat(raw)), BFormat(raw))
          [] opcode = 111 -> DecodeOk(Inst("J", "JAL", JFormat(raw), 0))
          [] opcode = 55  -> DecodeOk(Inst("U", "LUI", UFormat(raw), 0))
          [] opcode = 23  -> DecodeOk(Inst("U", "AUIPC", UFormat(raw), 0))
          [] opcode = 115 -> DecodeOk(decode_ecall(rs))
          [] opcode = 15  -> DecodeOk(Inst("SysCall", "Nop", NoFormat, 0))
          [] OTHER -> DecodeErr("InvalidOpcode", opcode, NoFormat)

---------------------------------------------------------------------------
(* inst.rs: the operations and Inst::execute *)

ArithI == {"ADDI", "XORI", "ORI", "ANDI", "SLLI", "SRLI", "SRAI", "SLTI", "SLTIU"}
LoadI  == {"LB", "LH", "LW", "LBU", "LHU"}

\* impl From<ArithIInst> for RInst
RInstFrom(op) ==
    CASE op = "ADDI" -> "ADD"
      [] op = "XORI" -> "XOR"
      [] op = "ORI"  -> "OR"
      [] op = "ANDI" -> "AND"
      [] op = "SLLI" -> "SLL"
      [] op = "SRLI" -> "SRL"
      [] op = "SRAI" -> "SRA"
      [] op = "SLTI" -> "SLT"
      [] op = "SLTIU" -> "SLTU"

\* Faulty variant of RInst::op: SRA shifts zeros in.
RInst_op_logical(op, rs1, rs2) ==
    CASE op = "ADD"  -> wrapping_add(rs1, rs2)
      [] op = "SUB"  -> wrapping_sub(rs1, rs2)
      [] op = "XOR"  -> Bitwise("xor", rs1, rs2)
      [] op = "OR"   -> Bitwise("or", rs1, rs2)
      [] op = "AND"  -> Bitwise("and", rs1, rs2)
      [] op = "SLL"  -> Shl(rs1, get_bits(rs2, 0, 4))
      [] op = "SRL"  -> Shr(rs1, get_bits(rs2, 0, 4))
      [] op = "SRA"  -> Shr(rs1, get_bits(rs2, 0, 4))
      [] op = "SLT"  -> IF SLt(rs1, rs2) THEN 1 ELSE 0
      [] op = "SLTU" -> IF ULt(rs1, rs2) THEN 1 ELSE 0

\* RInst::op
RInst_op(op, rs1, rs2) ==
    CASE op = "ADD"  -> wrapping_add(rs1, rs2)
      [] op = "SUB"  -> wrapping_sub(rs1, rs2)
      [] op = "XOR"  -> Bitwise("xor", rs1, rs2)
      [] op = "OR"   -> Bitwise("or", rs1, rs2)
      [] op = "AND"  -> Bitwise("and", rs1, rs2)
      [] op = "SLL"  -> Shl(rs1, get_bits(rs2, 0, 4))
      [] op = "SRL"  -> Shr(rs1, get_bits(rs2, 0, 4))
      [] op = "SRA"  -> Sar(rs1, get_bits_i32(rs2, 0, 4))
      [] op = "SLT"  -> IF SLt(rs1, rs2) THEN 1 ELSE 0
      [] op = "SLTU" -> IF ULt(rs1, rs2) THEN 1 ELSE 0

\* Faulty variant of LoadIInst::is_unsigned: every load is unsigned.
is_unsigned_always(op) == TRUE

\* LoadIInst::is_unsigned
is_unsigned(op) == op \in {"LBU", "LHU"}

\* the address computed by LoadIInst::op and SInst::op
effective_address(rs1, imm) == wrapping_add(rs1, imm)

\* Faulty variant of the Jalr target: the low bit is cleared.
jalr_target_aligned(rs1, imm) == Bitwise("and", wrapping_add(rs1, imm), -2)

\* the target IInst::op (Jalr) passes to pc.set
jalr_target(rs1, imm) == wrapping_add(rs1, imm)

\* the value IInst::op (Jalr) returns for rd
jalr_link(p) == p

\* Faulty variant of the branch match: BLTU and BGEU compare as signed.
branch_taken_signed(op, rs1, rs2) ==
    CASE op = "BEQ"  -> rs1 = rs2
      [] op = "BNE"  -> rs1 # rs2
      [] op = "BLT"  -> SLt(rs1, rs2)
      [] op = "BLTU" -> SLt(rs1, rs2)
      [] op = "BGE"  -> ~SLt(rs1, rs2)
      [] op = "BGEU" -> ~SLt(rs1, rs2)

\* the match of Inst::execute (Inst::B) that decides `branch`
branch_taken(op, rs1, rs2) ==
    CASE op = "BEQ"  -> rs1 = rs2
      [] op = "BNE"  -> rs1 # rs2
      [] op = "BLT"  -> SLt(rs1, rs2)
      [] op = "BLTU" -> ULt(rs1, rs2)
      [] op = "BGE"  -> ~SLt(rs1, rs2)
      [] op = "BGEU" -> ~ULt(rs1, rs2)

\* Faulty variant of the relative target: the 4 of the fetch is not taken off.
relative_target_uncompensated(p, imm) == wrapping_add(p, imm)

\* the PC a taken branch or a JAL sets: pc + (imm - 4), both wrapping
relative_target(p, imm) == wrapping_add(p, wrapping_sub(imm, INST_LEN))

\* the value Inst::execute (Inst::J) writes to rd
jal_link(p) == p

\* `pc - 4` of UInst::op (AUIPC) underflows u32: a panic with overflow
\* checks, a wrap without them.
auipc_underflows(p) == ULt(p, INST_LEN)

\* Faulty variant of UInst::op: AUIPC adds to the PC as it stands.
UInst_op_uncompensated(op, p, imm) ==
    CASE op = "LUI"   -> Shl(imm, 12)
      [] op = "AUIPC" -> wrapping_add(p, Shl(imm, 12))

\* Faulty variant of UInst::op: LUI does not shift the immediate.
UInst_op_unshifted(op, p, imm) ==
    CASE op = "LUI"   -> imm
      [] op = "AUIPC" -> wrapping_add(wrapping_sub(p, INST_LEN), Shl(imm, 12))

\* UInst::op
UInst_op(op, p, imm) ==
    CASE op = "LUI"   -> Shl(imm, 12)
      [] op = "AUIPC" -> wrapping_add(wrapping_sub(p, INST_LEN), Shl(imm, 12))

\* the state of the Cpu that Inst::execute leaves, or the panic that ends it
Effect(p, rs, m, panic) == [pc |-> p, regs |-> rs, mem |-> m, panic |-> panic]

\* the assert!(reg < 32) of every Registers::read and Registers::write that
\* the instruction's arm of Inst::execute makes
asserts_hold(i) ==
    CASE i.kind = "R" ->
           reg_in_range(i.f.rs1) /\ reg_in_range(i.f.rs2) /\ reg_in_range(i.f.rd)
      [] i.kind = "I" -> reg_in_range(i.f.rs1) /\ reg_in_range(i.f.rd)
      [] i.kind \in {"S", "B"} -> reg_in_range(i.f.rs1) /\ reg_in_range(i.f.rs2)
      [] i.kind \in {"J", "U"} -> reg_in_range(i.f.rd)
      [] OTHER -> TRUE

\* Inst::execute.  `checked` says whether the build has overflow checks.
execute(i, p, rs, m, checked) ==
    LET f   == i.f
        rs1 == regs_read(rs, f.rs1)
        rs2 == regs_read(rs, f.rs2)
    IN  IF ~asserts_hold(i) THEN Effect(p, rs, m, TRUE)
        ELSE
        CASE i.kind = "R" ->
               Effect(p, regs_write(rs, f.rd, RInst_op(i.op, rs1, rs2)), m, FALSE)
          [] i.kind = "I" /\ i.op \in ArithI ->
               Effect(p, regs_write(rs, f.rd, RInst_op(RInstFrom(i.op), rs1, f.imm)), m, FALSE)
          [] i.kind = "I" /\ i.op \in LoadI ->
               LET from == effective_address(rs1, f.imm)
                   size == SizeOfLoad(i.op)
               IN  IF slice_in_range(from, size)
                   THEN Effect(p, regs_write(rs, f.rd,
                                   mem_read(m, from, size, is_unsigned(i.op))), m, FALSE)
                   ELSE Effect(p, rs, m, TRUE)
          [] i.kind = "I" /\ i.op = "JALR" ->
               Effect(jalr_target(rs1, f.imm), regs_write(rs, f.rd, jalr_link(p)), m, FALSE)
          [] i.kind = "S" ->
               LET from == effective_address(rs1, f.imm)
                   size == SizeOfStore(i.op)
               IN  IF slice_in_range(from, size)
                   THEN Effect(p, rs, mem_write(m, from, size, rs2), FALSE)
                   ELSE Effect(p, rs, m, TRUE)
          [] i.kind = "B" ->
               IF branch_taken(i.op, rs1, rs2)
               THEN Effect(relative_target(p, f.imm), rs, m, FALSE)
               ELSE Effect(p, rs, m, FALSE)
          [] i.kind = "J" ->
               Effect(relative_target(p, f.imm), regs_write(rs, f.rd, jal_link(p)), m, FALSE)
          [] i.kind = "U" ->
               IF i.op = "AUIPC" /\ auipc_underflows(p) /\ checked
               THEN Effect(p, rs, m, TRUE)
               ELSE Effect(p, regs_write(rs, f.rd, UInst_op(i.op, p, f.imm)), m, FALSE)
          [] i.kind = "SysCall" -> Effect(p, rs, m, FALSE)

---------------------------------------------------------------------------
(* Bounds of the model *)

\* the longest register set-up that precedes the instruction under test
MaxSetup == 2

\* the cycles of Cpu::run that are followed
MaxCycles == 8

\* the calls a caller of the public API makes
MaxCalls == 3

\* the calls a caller of Memory's functions makes
MaxMemCalls == 2

---------------------------------------------------------------------------
(* Instruction words, following the layouts drawn in inst_format.rs *)

\* bits 0..15 of a word: rs1's lowest bit, funct3, rd and the opcode
LowHalf(rs1, funct3, rd, opcode) ==
    (rs1 % 2) * 32768 + funct3 * 4096 + rd * 128 + opcode

\* funct7 | rs2 | rs1 | funct3 | rd | opcode
EncR(funct7, rs2, rs1, funct3, rd, opcode) ==
    Word(funct7 * 512 + rs2 * 16 + (rs1 \div 2), LowHalf(rs1, funct3, rd, opcode))

\* imm[11:0] | rs1 | funct3 | rd | opcode
EncI(imm, rs1, funct3, rd, opcode) ==
    LET u == imm % 4096
    IN  EncR(u \div 32, u % 32, rs1, funct3, rd, opcode)

\* imm[11:5] | rs2 | rs1 | funct3 | imm[4:0] | opcode
EncS(imm, rs2, rs1, funct3, opcode) ==
    LET u == imm % 4096
    IN  EncR(u \div 32, rs2, rs1, funct3, u % 32, opcode)

\* imm[12] | imm[10:5] | rs2 | rs1 | funct3 | imm[4:1] | imm[11] | opcode
EncB(imm, rs2, rs1, funct3, opcode) ==
    LET u == imm % 8192
    IN  EncR((u \div 4096) * 64 + ((u \div 32) % 64), rs2, rs1, funct3,
             ((u \div 2) % 16) * 2 + ((u \div 2048) % 2), opcode)

\* imm[31:12] | rd | opcode
EncU(imm20, rd, opcode) ==
    LET u == imm20 % 1048576
    IN  Word(u \div 16, (u % 16) * 4096 + rd * 128 + opcode)

\* imm[20] | imm[10:1] | imm[11] | imm[19:12] | rd | opcode
EncJ(imm, rd, opcode) ==
    LET u == imm % 2097152
    IN  EncU((u \div 1048576) * 524288 + ((u \div 2) % 1024) * 512
               + ((u \div 2048) % 2) * 256 + ((u \div 4096) % 256), rd, opcode)

\* A program image: the words in order, each as four little-endian bytes.
Image(words) ==
    LET byte(a)  == le_byte(words[(a \div 4) + 1], a % 4)
        nonzero == {a \in 0 .. (4 * Len(words) - 1) : byte(a) # 0}
    IN  Vec(4 * Len(words), [a \in nonzero |-> byte(a)])

---------------------------------------------------------------------------
(* The programs that are run *)

\* Sequences over S of length 0..n.
RECURSIVE SeqsUpTo(_, _)
SeqsUpTo(S, n) ==
    IF n = 0 THEN {<<>>}
    ELSE LET shorter == SeqsUpTo(S, n - 1)
         IN  shorter \cup {Append(q, w) : q \in shorter, w \in S}

\* Register set-up: a7 = 93, a0 = sp + 7 = 0x20007, x5 = 0xFFFFFFFF, x6 = 0x80000000.
SetupWords ==
    { EncI(EXIT_SYSCALL, 0, 0, SYSCALL_REG, 19),
      EncI(7, SP_REG, 0, EXIT_CODE_REG, 19),
      EncI(-1, 0, 0, 5, 19),
      EncU(524288, 6, 55) }

\* opcode 0110011 with every listed (funct3, funct7) and two unlisted ones
RWords ==
    { EncR(ff[2], rs2, 5, ff[1], 11, 51) :
        ff \in {<<0, 0>>, <<0, 32>>, <<4, 0>>, <<6, 0>>, <<7, 0>>, <<1, 0>>, <<5, 0>>,
                <<5, 32>>, <<2, 0>>, <<3, 0>>, <<0, 1>>, <<1, 32>>},
        rs2 \in {SP_REG, 6} }
    \cup { EncR(0, 5, SP_REG, 0, 0, 51) }

\* opcode 0010011 with every funct3; 1027 = 0x403 has imm[11:5] = 0x20
ArithIWords ==
    { EncI(imm, 5, f3, 11, 19) : f3 \in 0..7, imm \in {-1, 3, 1027} }
    \cup { EncI(5, 0, 0, 0, 19) }

\* SLL, SRL and SRA of x6 by x5 and by x10, and SLLI, SRLI and SRAI of x6 by
\* 31 (1055 = 0x41F)
ShiftWords ==
    { EncR(ff[2], rs2, 6, ff[1], 11, 51) :
        ff \in {<<1, 0>>, <<5, 0>>, <<5, 32>>}, rs2 \in {5, EXIT_CODE_REG} }
    \cup { EncI(31, 6, 1, 11, 19), EncI(31, 6, 5, 11, 19), EncI(1055, 6, 5, 11, 19) }

\* opcode 0000011 with every funct3, at address 0, 3, MEM_SIZE - 1 and x5
LoadWords ==
    { EncI(ra[2], ra[1], f3, 11, 3) :
        f3 \in 0..7, ra \in {<<0, 0>>, <<0, 3>>, <<SP_REG, -1>>, <<5, 0>>} }

\* opcode 1100111
JalrWords ==
    { EncI(-3, 5, 0, 1, 103), EncI(8, 5, 0, 5, 103), EncI(-4, SP_REG, 0, 0, 103),
      EncI(-3, SP_REG, 0, 1, 103), EncI(1, 0, 0, 1, 103), EncI(8, 5, 1, 1, 103) }

\* opcode 0100011 with every funct3 up to 3
StoreWords ==
    { EncS(a[3], a[2], a[1], f3, 35) :
        f3 \in 0..3, a \in {<<0, 5, 64>>, <<SP_REG, EXIT_CODE_REG, -2>>, <<0, EXIT_CODE_REG, 5>>} }

\* opcode 1100011 with every funct3
BranchWords ==
    { EncB(imm, r[2], r[1], f3, 99) :
        f3 \in 0..7, r \in {<<5, SP_REG>>, <<SP_REG, 5>>, <<6, 6>>}, imm \in {8, -4} }

\* opcode 1101111; 1048574 = 0xFFFFE is the largest offset
JalWords ==
    { EncJ(imm, rd, 111) : rd \in {0, 1}, imm \in {8, -4, 0, 2, 1048574} }

\* opcodes 0110111 and 0010111
UWords ==
    { EncU(imm, rd, op) :
        op \in {55, 23}, rd \in {0, EXIT_CODE_REG}, imm \in {1, 65535, 524288, 1048575} }

\* ecall, ebreak (the same opcode), fence
SysWords == { EncI(0, 0, 0, 0, 115), EncI(1, 0, 0, 0, 115), EncI(255, 0, 0, 0, 15) }

\* unrecognised opcodes 1111111, 1010111 and 0000000 (in a non-zero word), and the zero word
OtherWords == { EncI(-1, 31, 7, 31, 127), EncI(0, 0, 0, 0, 87), EncI(0, 0, 0, 2, 0), 0 }

TestWords ==
    RWords \cup ArithIWords \cup ShiftWords \cup LoadWords \cup JalrWords \cup StoreWords
        \cup BranchWords \cup JalWords \cup UWords \cup SysWords \cup OtherWords

\* Vectors of MEM_SIZE + 4 bytes: addi x17, x0, 93 alone or followed by
\* ecall, then zeros, and a non-zero byte at index MEM_SIZE.
OversizedPrograms ==
    { Vec(MEM_SIZE + 4, Image(q).at @@ (MEM_SIZE :> 19)) :
        q \in { <<EncI(EXIT_SYSCALL, 0, 0, SYSCALL_REG, 19)>>,
                <<EncI(EXIT_SYSCALL, 0, 0, SYSCALL_REG, 19), EncI(0, 0, 0, 0, 115)>> } }

\* addi x5, x0, a; addi x6, x0, b; add x7, x5, x6; addi x17, x0, 93;
\* add x10, x0, x7; ecall
ExampleWords(a, b) ==
    <<EncI(a, 0, 0, 5, 19), EncI(b, 0, 0, 6, 19), EncR(0, 6, 5, 0, 7, 51),
      EncI(EXIT_SYSCALL, 0, 0, SYSCALL_REG, 19), EncR(0, 7, 0, 0, EXIT_CODE_REG, 51),
      EncI(0, 0, 0, 0, 115)>>

\* the program with a = 10 and b = -3
ExampleProgram == Image(ExampleWords(10, -3))

\* A program: a register set-up, then the instruction under test.
Programs ==
    { Image(Append(q, w)) : q \in SeqsUpTo(SetupWords, MaxSetup), w \in TestWords }
        \cup OversizedPrograms \cup {ExampleProgram}

---------------------------------------------------------------------------
(* cpu.rs: Cpu::new, Cpu::run and Cpu::emulate_cycle *)

Running == [kind |-> "Running", arg |-> 0, f |-> NoFormat]

\* Ok(code) and Err(error) of Cpu::run; a panic ends the run with neither
Returned(kind, arg, f) == [kind |-> kind, arg |-> arg, f |-> f]

Snapshot == [pc |-> pc, regs |-> regs, mem |-> mem]

\* Cpu::new
Init ==
    /\ pc = ProgramCounter_new
    /\ regs = Registers_new
    /\ mem = Memory_new
    /\ phase = "new"
    /\ cycle = 0
    /\ fetched_pc = 0
    /\ raw_inst = 0
    /\ inst = NoInst
    /\ result = Running
    /\ lastStep = "new"
    /\ before = [pc |-> ProgramCounter_new, regs |-> Registers_new, mem |-> Memory_new]
    /\ calls = 0
    /\ lastArg = <<0, 0>>
    /\ loaded = EmptyVec

\* Cpu::run: self.mem.load_program(program), then the loop
Run ==
    /\ phase = "new"
    /\ \E program \in Programs :
         /\ mem' = load_program(mem, program)
         /\ loaded' = program
    /\ phase' = "inc"
    /\ lastStep' = "load"
    /\ before' = Snapshot
    /\ UNCHANGED <<pc, regs, cycle, fetched_pc, raw_inst, inst, result, calls, lastArg>>

\* ProgramCounter::inc in a build with overflow checks, when `self.0 += 4` overflows
PcIncPanic ==
    /\ phase = "inc"
    /\ cycle < MaxCycles
    /\ inc_overflows(pc)
    /\ phase' = "halted"
    /\ result' = Returned("Panic", 0, NoFormat)
    /\ lastStep' = "inc"
    /\ before' = Snapshot
    /\ UNCHANGED <<pc, regs, mem, cycle, fetched_pc, raw_inst, inst, calls, lastArg, loaded>>

\* ProgramCounter::inc returning Err(InvalidPC(pc, MEM_SIZE)), which `?` in
\* Cpu::fetch and Cpu::emulate_cycle passes on to Cpu::run
PcIncInvalid ==
    /\ phase = "inc"
    /\ cycle < MaxCycles
    /\ inc_invalid(pc)
    /\ fetched_pc' = pc
    /\ pc' = inc_pc(pc)
    /\ phase' = "halted"
    /\ result' = Returned("InvalidPC", pc, NoFormat)
    /\ lastStep' = "inc"
    /\ before' = Snapshot
    /\ UNCHANGED <<regs, mem, cycle, raw_inst, inst, calls, lastArg, loaded>>

\* ProgramCounter::inc returning Ok(pc)
PcIncOk ==
    /\ phase = "inc"
    /\ cycle < MaxCycles
    /\ ~inc_invalid(pc)
    /\ fetched_pc' = pc
    /\ pc' = inc_pc(pc)
    /\ phase' = "read"
    /\ lastStep' = "inc"
    /\ before' = Snapshot
    /\ UNCHANGED <<regs, mem, cycle, raw_inst, inst, result, calls, lastArg, loaded>>

\* Cpu::fetch: self.mem.read(pc, Size::Word, true)
FetchRead ==
    /\ phase = "read"
    /\ IF slice_in_range(fetched_pc, 4)
       THEN /\ raw_inst' = mem_read(mem, fetched_pc, 4, TRUE)
            /\ phase' = "decode"
            /\ UNCHANGED result
       ELSE /\ phase' = "halted"
            /\ result' = Returned("Panic", 0, NoFormat)
            /\ UNCHANGED raw_inst
    /\ lastStep' = "read"
    /\ UNCHANGED <<pc, regs, mem, cycle, fetched_pc, inst, before, calls, lastArg, loaded>>

\* Faulty variant of Cpu::emulate_cycle: the zero check is missing.
after_fetch_unchecked(raw, rs) ==
    LET d == decode(raw, rs)
    IN  IF ~d.ok
        THEN [next |-> "halted", inst |-> NoInst, result |-> Returned(d.err, d.arg, d.f)]
        ELSE IF d.inst.kind = "SysCall" /\ d.inst.op = "Exit"
        THEN [next |-> "halted", inst |-> d.inst,
              result |-> Returned("Exit", d.inst.code, NoFormat)]
        ELSE [next |-> "execute", inst |-> d.inst, result |-> Running]

\* Cpu::emulate_cycle between fetch and execute: the zero check, the decode
\* and the check for SysCall::Exit.  [next |-> "execute"] or what run returns.
after_fetch(raw, rs) ==
    IF raw = 0
    THEN [next |-> "halted", inst |-> NoInst, result |-> Returned("EndOfInstructions", 0, NoFormat)]
    ELSE LET d == decode(raw, rs)
         IN  IF ~d.ok
             THEN [next |-> "halted", inst |-> NoInst, result |-> Returned(d.err, d.arg, d.f)]
             ELSE IF d.inst.kind = "SysCall" /\ d.inst.op = "Exit"
             THEN [next |-> "halted", inst |-> d.inst,
                   result |-> Returned("Exit", d.inst.code, NoFormat)]
             ELSE [next |-> "execute", inst |-> d.inst, result |-> Running]

Decode ==
    /\ phase = "decode"
    /\ LET a == after_fetch(raw_inst, regs)
       IN  /\ phase' = a.next
           /\ inst' = a.inst
           /\ result' = a.result
    /\ lastStep' = "decode"
    /\ UNCHANGED <<pc, regs, mem, cycle, fetched_pc, raw_inst, before, calls, lastArg, loaded>>

\* inst.execute(self), then Ok(ProgState::Continue) and the loop's next cycle
Execute ==
    /\ phase = "execute"
    /\ \E checked \in BOOLEAN :
         LET e == execute(inst, pc, regs, mem, checked)
         IN  IF e.panic
             THEN /\ phase' = "halted"
                  /\ result' = Returned("Panic", 0, NoFormat)
                  /\ UNCHANGED <<pc, regs, mem, cycle>>
             ELSE /\ pc' = e.pc
                  /\ regs' = e.regs
                  /\ mem' = e.mem
                  /\ phase' = "inc"
                  /\ cycle' = cycle + 1
                  /\ UNCHANGED result
    /\ lastStep' = "execute"
    /\ UNCHANGED <<fetched_pc, raw_inst, inst, before, calls, lastArg, loaded>>

Next ==
    \/ Run
    \/ PcIncPanic
    \/ PcIncInvalid
    \/ PcIncOk
    \/ FetchRead
    \/ Decode
    \/ Execute

Spec == Init /\ [][Next]_vars

---------------------------------------------------------------------------
(* Cpu::run on the programs that add two immediates and exit with the sum. *)

\* the immediates of the two addi: the least and the largest among them
ExampleImms == {10, -3, 0, 2047, -2048}

\* Cpu::run with such a program
RunExample ==
    /\ phase = "new"
    /\ \E a \in ExampleImms, b \in ExampleImms :
         /\ mem' = load_program(mem, Image(ExampleWords(a, b)))
         /\ loaded' = Image(ExampleWords(a, b))
    /\ phase' = "inc"
    /\ lastStep' = "load"
    /\ before' = Snapshot
    /\ UNCHANGED <<pc, regs, cycle, fetched_pc, raw_inst, inst, result, calls, lastArg>>

\* The steps of the loop that these programs take: their PC stays below 24,
\* so ProgramCounter::inc returns Ok in every cycle.
NextExample ==
    \/ RunExample
    \/ PcIncOk
    \/ FetchRead
    \/ Decode
    \/ Execute

\* Cpu::run is sequential code: a step that can be taken is taken.
SpecExample == Init /\ [][NextExample]_vars /\ WF_vars(NextExample)

---------------------------------------------------------------------------
(* Cpu::run on the one-word programs whose word has any opcode of the      *)
(* dispatch table (or 1111111) and the extreme values of every field.      *)

WordOpcodes == {51, 19, 3, 103, 35, 99, 111, 55, 23, 115, 15, 127}

\* funct7 | rs2 | rs1 | funct3 | rd | opcode, each field at 0 and at its largest
FieldWords ==
    { EncR(funct7, rs2, rs1, funct3, rd, opcode) :
        funct7 \in {0, 32, 127}, rs2 \in {0, SYSCALL_REG, 31},
        rs1 \in {0, EXIT_CODE_REG, 31}, funct3 \in 0..7, rd \in {0, 16, 31},
        opcode \in WordOpcodes }

\* Cpu::run with a one-word program
RunWord ==
    /\ phase = "new"
    /\ \E w \in FieldWords :
         /\ mem' = load_program(mem, Image(<<w>>))
         /\ loaded' = Image(<<w>>)
    /\ phase' = "inc"
    /\ lastStep' = "load"
    /\ before' = Snapshot
    /\ UNCHANGED <<pc, regs, cycle, fetched_pc, raw_inst, inst, result, calls, lastArg>>

NextWords ==
    \/ RunWord
    \/ PcIncPanic
    \/ PcIncInvalid
    \/ PcIncOk
    \/ FetchRead
    \/ Decode
    \/ Execute

SpecWords == Init /\ [][NextWords]_vars

---------------------------------------------------------------------------
(* A caller of the public API, as the tests of inst.rs are: Cpu::new, then  *)
(* cpu.pc.set, cpu.regs.write and inst.execute(&mut cpu) in any order.      *)

\* the addresses given to cpu.pc.set: 0, 0x40000004 and 0x40000008
PcValues == {0, 1073741828, 1073741832}

\* the registers and values given to cpu.regs.write: 12 and 0x43000000
WriteRegs == {0, 5, 28}
WriteValues == {12, 1124073472}

\* auipc x5, 0x3000; jalr x10, x5, -0x400; jalr x5, x5, 1; jalr x0, x5, 0;
\* lui x10, 1; lui x10, 0xFFFF; lui x0, 1; lui x10, 0xFFFFF; sb x28, 3(x0);
\* addi x0, x5, 5; add x5, x5, x28; jal x0, 8; sh x28, 5(x0); sw x5, 2(x0)
ExecWords ==
    { EncU(12288, 5, 23), EncI(-1024, 5, 0, 10, 103), EncI(1, 5, 0, 5, 103),
      EncI(0, 5, 0, 0, 103), EncU(1, 10, 55), EncU(65535, 10, 55), EncU(1, 0, 55),
      EncU(1048575, 10, 55), EncS(3, 28, 0, 0, 35), EncI(5, 5, 0, 0, 19),
      EncR(0, 28, 5, 0, 5, 51), EncJ(8, 0, 111), EncS(5, 28, 0, 1, 35),
      EncS(2, 5, 0, 2, 35) }

\* the instructions given to execute
ExecInsts == { decode(w, Registers_new).inst : w \in ExecWords }

InitExec ==
    /\ pc = ProgramCounter_new
    /\ regs = Registers_new
    /\ mem = Memory_new
    /\ phase = "api"
    /\ cycle = 0
    /\ fetched_pc = 0
    /\ raw_inst = 0
    /\ inst = NoInst
    /\ result = Running
    /\ lastStep = "new"
    /\ before = [pc |-> ProgramCounter_new, regs |-> Registers_new, mem |-> Memory_new]
    /\ calls = 0
    /\ lastArg = <<0, 0>>
    /\ loaded = EmptyVec

\* ProgramCounter::set
PcSet ==
    /\ phase = "api"
    /\ calls < MaxCalls
    /\ \E addr \in PcValues : pc' = addr
    /\ lastStep' = "set"
    /\ before' = Snapshot
    /\ calls' = calls + 1
    /\ UNCHANGED <<regs, mem, phase, cycle, fetched_pc, raw_inst, inst, result, lastArg, loaded>>

\* Registers::write
RegsWrite ==
    /\ phase = "api"
    /\ calls < MaxCalls
    /\ \E reg \in WriteRegs, val \in WriteValues :
         /\ regs' = regs_write(regs, reg, val)
         /\ lastArg' = <<reg, val>>
    /\ lastStep' = "write"
    /\ before' = Snapshot
    /\ calls' = calls + 1
    /\ UNCHANGED <<pc, mem, phase, cycle, fetched_pc, raw_inst, inst, result, loaded>>

\* Inst::execute
ExecuteInst ==
    /\ phase = "api"
    /\ calls < MaxCalls
    /\ \E i \in ExecInsts, checked \in BOOLEAN :
         LET e == execute(i, pc, regs, mem, checked)
         IN  /\ inst' = i
             /\ IF e.panic
                THEN /\ phase' = "halted"
                     /\ result' = Returned("Panic", 0, NoFormat)
                     /\ UNCHANGED <<pc, regs, mem>>
                ELSE /\ pc' = e.pc
                     /\ regs' = e.regs
                     /\ mem' = e.mem
                     /\ UNCHANGED <<phase, result>>
    /\ lastStep' = "execute"
    /\ before' = Snapshot
    /\ calls' = calls + 1
    /\ UNCHANGED <<cycle, fetched_pc, raw_inst, lastArg, loaded>>

NextExec ==
    \/ PcSet
    \/ RegsWrite
    \/ ExecuteInst

SpecExec == InitExec /\ [][NextExec]_vars

---------------------------------------------------------------------------
(* Properties.  In the run loop (Spec), `before` is the state when the      *)
(* cycle began and fetched_pc the address of the cycle's instruction; for   *)
(* a caller of the API (SpecExec), `before` is the state when the call      *)
(* was made.                                                                *)

\* the opcode of the fetched word: its low 7 bits
OpcodeOf(raw) == raw % 128

\* the rd field of the fetched word: bits 7..11
RdOf(raw) == (raw \div 128) % 32

\* the funct3 field of the fetched word: bits 12..14
Funct3Of(raw) == (raw \div 4096) % 8

\* the rs1 and rs2 fields of the fetched word: bits 15..19 and 20..24
Rs1Of(raw) == (raw \div 32768) % 32
Rs2Of(raw) == (raw \div 1048576) % 32

\* a < b as unsigned 32-bit values, by halves
UnsignedBelow(a, b) ==
    \/ Hi(a) % 65536 < Hi(b) % 65536
    \/ (Hi(a) % 65536 = Hi(b) % 65536 /\ Lo(a) < Lo(b))

\* (imm << 12) mod 2^32: the low 20 bits of imm, moved up by 12
ShiftedBy12(imm) == Word((imm \div 16) % 65536, (imm % 16) * 4096)

\* C1 (SpecExec): after any sequence of register writes and executed
\* instructions, reading register 0 yields 0 and slot 0 still holds its
\* initial 0; a regs.write to index 0, and an executed instruction whose rd
\* is 0 and that writes rd, leave every register slot as it was.
C1_ZeroRegister ==
    /\ regs_read(regs, 0) = 0
    /\ regs[0] = 0
    /\ (lastStep = "write" /\ lastArg[1] = 0) => regs = before.regs
    /\ (lastStep = "execute" /\ result.kind = "Running" /\ inst.f.rd = 0
            /\ inst.kind \in {"R", "I", "U", "J"})
          => regs = before.regs

\* a write of a non-zero value to index 0 has just been made
C1_Witness ==
    /\ lastStep = "write"
    /\ lastArg[1] = 0
    /\ lastArg[2] # 0
    /\ calls > 1

\* C2 (Spec): a fetched word with opcode 1110011 ends the run with exit
\* code = the low 8 bits of register 10 when register 17 is 93, changing no
\* register and no memory byte; when register 17 is not 93, and for the
\* fence opcode 0001111, the instruction is executed, the cycle changes
\* nothing but the PC, which is the instruction's address + 4, and the run
\* goes on.
C2_EnvironmentCall ==
    /\ (lastStep = "decode" /\ OpcodeOf(raw_inst) = 115 /\ regs[17] = 93)
          => /\ phase = "halted"
             /\ result.kind = "Exit"
             /\ result.arg = regs[10] % 256
             /\ regs = before.regs
             /\ mem = before.mem
    /\ (lastStep = "decode"
            /\ ((OpcodeOf(raw_inst) = 115 /\ regs[17] # 93) \/ OpcodeOf(raw_inst) = 15))
          => /\ phase = "execute"
             /\ result.kind = "Running"
    /\ (lastStep = "execute" /\ OpcodeOf(raw_inst) \in {115, 15})
          => /\ phase = "inc"
             /\ result.kind = "Running"
             /\ regs = before.regs
             /\ mem = before.mem
             /\ fetched_pc = before.pc
             /\ pc = fetched_pc + 4

\* the run has exited with code 7 while register 10 holds 0x20007
C2_Witness ==
    /\ lastStep = "decode"
    /\ OpcodeOf(raw_inst) = 115
    /\ result.kind = "Exit"
    /\ result.arg = 7
    /\ regs[10] = 131079

\* C3 (Spec): when the fetched word is all zeros the run ends in that cycle
\* with EndOfInstructions, and the cycle has changed no register and no
\* memory byte.
C3_ZeroWord ==
    (lastStep = "decode" /\ raw_inst = 0)
       => /\ phase = "halted"
          /\ result.kind = "EndOfInstructions"
          /\ regs = before.regs
          /\ mem = before.mem

\* a zero word has ended a run that had executed an instruction
C3_Witness ==
    /\ lastStep = "decode"
    /\ raw_inst = 0
    /\ result.kind = "EndOfInstructions"
    /\ cycle > 0

\* C4 (Spec): an instruction word is read only at a PC <= MEM_SIZE - 4, and
\* every fetch attempted at a PC > MEM_SIZE - 4, up to 0xFFFFFFFF, ends the run
\* with InvalidPC carrying that PC, with no memory read and no register or
\* memory byte changed.
C4_FetchBound ==
    /\ (phase = "read" \/ lastStep = "read")
          => (fetched_pc >= 0 /\ fetched_pc <= MEM_SIZE - 4)
    /\ (lastStep = "inc" /\ (before.pc < 0 \/ before.pc > MEM_SIZE - 4))
          => /\ phase = "halted"
             /\ result.kind = "InvalidPC"
             /\ result.arg = before.pc
             /\ regs = before.regs
             /\ mem = before.mem

\* whether the predicate of the branch with this funct3 holds of a and b
PredicateHolds(f3, a, b) ==
    CASE f3 = 0 -> a = b
      [] f3 = 1 -> a # b
      [] f3 = 4 -> a < b
      [] f3 = 5 -> a >= b
      [] f3 = 6 -> UnsignedBelow(a, b)
      [] f3 = 7 -> ~UnsignedBelow(a, b)

\* C5 (Spec): after a B-type instruction fetched at A with decoded immediate
\* imm, the next fetch address is (A + imm) mod 2^32 when its predicate
\* holds of rs1 and rs2 (BEQ equal, BNE not equal, BLT/BGE signed, BLTU/BGEU
\* unsigned) and A + 4 when it does not; no register and no memory byte
\* changes.
C5_Branch ==
    (lastStep = "execute" /\ OpcodeOf(raw_inst) = 99)
       => LET a == before.regs[Rs1Of(raw_inst)]
              b == before.regs[Rs2Of(raw_inst)]
          IN  /\ fetched_pc = before.pc
              /\ pc = IF PredicateHolds(Funct3Of(raw_inst), a, b)
                      THEN wrapping_add(fetched_pc, inst.f.imm)
                      ELSE fetched_pc + 4
              /\ regs = before.regs
              /\ mem = before.mem
              /\ result.kind = "Running"

\* a BLTU with rs1 above rs2 as signed values has branched backwards
C5_Witness ==
    /\ lastStep = "execute"
    /\ OpcodeOf(raw_inst) = 99
    /\ Funct3Of(raw_inst) = 6
    /\ before.regs[Rs1Of(raw_inst)] > before.regs[Rs2Of(raw_inst)]
    /\ inst.f.imm = -4
    /\ fetched_pc = 4
    /\ pc = 0

\* C6 (Spec): after a JAL fetched at A with decoded immediate imm, rd holds
\* A + 4 (unless rd is register 0) and the PC is (A + imm) mod 2^32.
C6_Jal ==
    (lastStep = "execute" /\ OpcodeOf(raw_inst) = 111)
       => /\ fetched_pc = before.pc
          /\ pc = wrapping_add(fetched_pc, inst.f.imm)
          /\ RdOf(raw_inst) # 0 => regs[RdOf(raw_inst)] = fetched_pc + 4

\* a JAL at address 8 has jumped back by 4 and linked 12 in x1
C6_Witness ==
    /\ lastStep = "execute"
    /\ OpcodeOf(raw_inst) = 111
    /\ RdOf(raw_inst) = 1
    /\ inst.f.imm = -4
    /\ fetched_pc = 8
    /\ pc = 4
    /\ regs[1] = 12

\* C7 (SpecExec): executing JALR with the PC holding P writes P to rd and
\* sets the PC to (old rs1 + imm) mod 2^32, the low bit kept, the old rs1
\* being used also when rd and rs1 are the same register; with P =
\* 0x40000008, rs1 = 0x43000000 and imm = -0x400 as in tests::long_jump, rd
\* is 0x40000008 and the PC 0x42FFFC00.
C7_Jalr ==
    (lastStep = "execute" /\ inst.kind = "I" /\ inst.op = "JALR")
       => /\ pc = wrapping_add(before.regs[inst.f.rs1], inst.f.imm)
          /\ inst.f.rd # 0 => regs[inst.f.rd] = before.pc
          /\ (before.pc = 1073741832 /\ before.regs[inst.f.rs1] = 1124073472
                  /\ inst.f.imm = -1024 /\ inst.f.rd = 10)
                => (regs[10] = 1073741832 /\ pc = 1124072448)

\* jalr x5, x5, 1 with x5 = 0x43000000 at P = 0x40000008: an odd target,
\* and rd the same register as rs1
C7_Witness ==
    /\ lastStep = "execute"
    /\ inst.op = "JALR"
    /\ inst.f.rd = 5
    /\ inst.f.rs1 = 5
    /\ before.regs[5] = 1124073472
    /\ before.pc = 1073741832
    /\ pc = 1124073473
    /\ regs[5] = 1073741832

\* C8 (Spec): executing AUIPC with the PC holding the post-incremented P
\* writes ((P - 4) + (imm << 12)) mod 2^32, the instruction's own address
\* plus the shifted immediate, to rd and leaves the PC and memory as they
\* were.
C8_Auipc ==
    (lastStep = "execute" /\ OpcodeOf(raw_inst) = 23)
       => /\ fetched_pc = before.pc
          /\ pc = fetched_pc + 4
          /\ mem = before.mem
          /\ RdOf(raw_inst) # 0
                => /\ regs[RdOf(raw_inst)] = wrapping_add(pc - 4, ShiftedBy12(inst.f.imm))
                   /\ regs[RdOf(raw_inst)] = wrapping_add(fetched_pc, ShiftedBy12(inst.f.imm))

\* auipc x10, 0xFFFFF at address 8 has written 8 - 0x1000
C8_Witness ==
    /\ lastStep = "execute"
    /\ OpcodeOf(raw_inst) = 23
    /\ RdOf(raw_inst) = 10
    /\ inst.f.imm = -1
    /\ fetched_pc = 8
    /\ pc = 12
    /\ regs[10] = -4088

\* auipc with decoded imm 0x3000 has been executed with the PC at 0x40000008
C9_Case ==
    /\ lastStep = "execute"
    /\ result.kind = "Running"
    /\ inst.kind = "U"
    /\ inst.op = "AUIPC"
    /\ inst.f.imm = 12288
    /\ inst.f.rd # 0
    /\ before.pc = 1073741832

\* C9 (SpecExec), as stated: an AUIPC that lives at 0x40000004 (PC just
\* after fetch 0x40000008) with decoded imm 0x3000 writes 0x43000000 to rd.
C9_Original == C9_Case => regs[inst.f.rd] = 1124073472

\* C9 (SpecExec), amended: that AUIPC writes 0x43000004 to rd; it is with
\* the PC just after fetch at 0x40000004 (the instruction at 0x40000000, as
\* in tests::long_jump) that 0x43000000 is written.
C9_Amended ==
    /\ C9_Case => regs[inst.f.rd] = 1124073476
    /\ (lastStep = "execute" /\ result.kind = "Running" /\ inst.kind = "U"
            /\ inst.op = "AUIPC" /\ inst.f.imm = 12288 /\ inst.f.rd # 0
            /\ before.pc = 1073741828)
          => regs[inst.f.rd] = 1124073472

\* that AUIPC has written 0x43000004 to x5
C9_Witness == C9_Case /\ inst.f.rd = 5 /\ regs[5] = 1124073476

\* C10 (SpecExec): executing LUI with decoded immediate imm writes
\* (imm << 12) mod 2^32 to rd, whose low 12 bits are then zero, whatever the
\* PC and whatever rd held; imm = 1 gives 0x1000 and imm = 0xFFFF gives
\* 0xFFFF000.
C10_Lui ==
    (lastStep = "execute" /\ inst.kind = "U" /\ inst.op = "LUI" /\ inst.f.rd # 0)
       => /\ regs[inst.f.rd] = ShiftedBy12(inst.f.imm)
          /\ regs[inst.f.rd] % 4096 = 0
          /\ inst.f.imm = 1 => regs[inst.f.rd] = 4096
          /\ inst.f.imm = 65535 => regs[inst.f.rd] = 268431360
          /\ pc = before.pc
          /\ mem = before.mem

\* lui x10, 0xFFFF with the PC at 0x40000004 has replaced the 0x1000 an
\* earlier lui x10, 1 left in x10
C10_Witness ==
    /\ lastStep = "execute"
    /\ inst.op = "LUI"
    /\ inst.f.imm = 65535
    /\ before.regs[10] = 4096
    /\ regs[10] = 268431360
    /\ pc = 1073741828

---------------------------------------------------------------------------
(* A caller of Memory's public functions: Memory::new, then mem.write and  *)
(* mem.load_program in any order; mem.read is the operator mem_read of the *)
(* array.                                                                  *)

\* the addresses written: the first bytes, an unaligned one, the last word
\* and the last byte
MemAddrs == {0, 3, MEM_SIZE - 4, MEM_SIZE - 1}

MemSizes == {1, 2, 4}

\* the values written: 0x12345678, 0xFFFFFF80 and 0x0000807F
MemValues == {305419896, -128, 32895}

\* the vectors loaded: empty, three bytes with a zero inside, MEM_SIZE bytes
\* and MEM_SIZE + 1 bytes
MemPrograms ==
    { EmptyVec,
      Vec(3, (0 :> 120 @@ 2 :> 52)),
      Vec(MEM_SIZE, ((MEM_SIZE - 1) :> 171)),
      Vec(MEM_SIZE + 1, (0 :> 1 @@ MEM_SIZE :> 2)) }

InitMem ==
    /\ pc = ProgramCounter_new
    /\ regs = Registers_new
    /\ mem = Memory_new
    /\ phase = "mem"
    /\ cycle = 0
    /\ fetched_pc = 0
    /\ raw_inst = 0
    /\ inst = NoInst
    /\ result = Running
    /\ lastStep = "new"
    /\ before = [pc |-> ProgramCounter_new, regs |-> Registers_new, mem |-> Memory_new]
    /\ calls = 0
    /\ lastArg = <<0, 0>>
    /\ loaded = EmptyVec

\* Memory::write; the slice from..from + len outside the array is a panic
MemWrite ==
    /\ phase = "mem"
    /\ calls < MaxMemCalls
    /\ \E from \in MemAddrs, size \in MemSizes, val \in MemValues :
         /\ lastArg' = <<from, size, val>>
         /\ IF slice_in_range(from, size)
            THEN /\ mem' = mem_write(mem, from, size, val)
                 /\ UNCHANGED <<phase, result>>
            ELSE /\ phase' = "halted"
                 /\ result' = Returned("Panic", 0, NoFormat)
                 /\ UNCHANGED mem
    /\ lastStep' = "memwrite"
    /\ before' = Snapshot
    /\ calls' = calls + 1
    /\ UNCHANGED <<pc, regs, cycle, fetched_pc, raw_inst, inst, loaded>>

\* Memory::load_program
LoadProgram ==
    /\ phase = "mem"
    /\ calls < MaxMemCalls
    /\ \E program \in MemPrograms :
         /\ mem' = load_program(mem, program)
         /\ loaded' = program
    /\ lastStep' = "memload"
    /\ before' = Snapshot
    /\ calls' = calls + 1
    /\ UNCHANGED <<pc, regs, phase, cycle, fetched_pc, raw_inst, inst, result, lastArg>>

NextMem ==
    \/ MemWrite
    \/ LoadProgram

SpecMem == InitMem /\ [][NextMem]_vars

---------------------------------------------------------------------------
\* the funct7 field of the fetched word (imm[11:5] of an I-type): bits 25..31
Funct7Of(raw) == (raw \div 33554432) % 128

\* the fetched instruction is a branch whose predicate held, a JAL or a JALR
TransfersControl ==
    \/ OpcodeOf(raw_inst) \in {111, 103}
    \/ /\ OpcodeOf(raw_inst) = 99
       /\ PredicateHolds(Funct3Of(raw_inst), before.regs[Rs1Of(raw_inst)],
                         before.regs[Rs2Of(raw_inst)])

\* C11 (Spec): in every cycle, when execute is about to run the PC is the
\* fetch address of the instruction plus 4; after a cycle that executed an
\* instruction other than a taken branch, JAL or JALR the PC is still that
\* fetch address plus 4.
C11_PcAdvanced ==
    /\ phase = "execute" => (fetched_pc = before.pc /\ pc = fetched_pc + 4)
    /\ (lastStep = "execute" /\ ~TransfersControl) => pc = fetched_pc + 4

\* a store fetched at address 8 has been executed and the PC is 12
C11_Witness ==
    /\ lastStep = "execute"
    /\ result.kind = "Running"
    /\ OpcodeOf(raw_inst) = 35
    /\ fetched_pc = 8
    /\ pc = 12
    /\ mem # before.mem

\* the eleven opcodes of the dispatch table
TableOpcodes == {51, 19, 3, 103, 35, 99, 111, 55, 23, 115, 15}

\* the (funct3, funct7) pairs listed for opcode 0110011
ListedR ==
    { <<0, 0>>, <<0, 32>>, <<4, 0>>, <<6, 0>>, <<7, 0>>, <<1, 0>>, <<5, 0>>, <<5, 32>>,
      <<2, 0>>, <<3, 0>> }

\* the funct3 / funct7 combination of the word is listed for its opcode
Listed(raw) ==
    LET f3 == Funct3Of(raw)
        f7 == Funct7Of(raw)
    IN  CASE OpcodeOf(raw) = 51  -> <<f3, f7>> \in ListedR
          [] OpcodeOf(raw) = 19  -> \/ f3 \in {0, 4, 6, 7, 2, 3}
                                    \/ (f3 = 1 /\ f7 = 0)
                                    \/ (f3 = 5 /\ f7 \in {0, 32})
          [] OpcodeOf(raw) = 3   -> f3 \in {0, 1, 2, 4, 5}
          [] OpcodeOf(raw) = 103 -> f3 = 0
          [] OpcodeOf(raw) = 35  -> f3 \in {0, 1, 2}
          [] OpcodeOf(raw) = 99  -> f3 \in {0, 1, 4, 5, 6, 7}
          [] OTHER -> TRUE

\* C12 (Spec): a non-zero fetched word whose low 7 bits are none of the
\* eleven opcodes ends the run with InvalidOpcode carrying those bits; one
\* whose opcode is recognised but whose funct3/funct7 combination is not
\* listed ends it with InvalidInstFormat; in both cases the cycle changes no
\* register and no memory byte.
C12_DecodeErrors ==
    (lastStep = "decode" /\ raw_inst # 0)
       => /\ OpcodeOf(raw_inst) \notin TableOpcodes
             => /\ phase = "halted"
                /\ result.kind = "InvalidOpcode"
                /\ result.arg = OpcodeOf(raw_inst)
                /\ regs = before.regs
                /\ mem = before.mem
          /\ (OpcodeOf(raw_inst) \in TableOpcodes /\ ~Listed(raw_inst))
             => /\ phase = "halted"
                /\ result.kind = "InvalidInstFormat"
                /\ regs = before.regs
                /\ mem = before.mem

\* a shift-left immediate with imm[11:5] = 0x7F, fetched after an executed
\* instruction, has ended the run with InvalidInstFormat
C12_Witness ==
    /\ lastStep = "decode"
    /\ OpcodeOf(raw_inst) = 19
    /\ Funct3Of(raw_inst) = 1
    /\ Funct7Of(raw_inst) = 127
    /\ result.kind = "InvalidInstFormat"
    /\ cycle > 0

---------------------------------------------------------------------------
\* the ways Cpu::run is said to end: Ok(code) of the exit environment call
\* and the four errors
ListedEndings ==
    {"Exit", "EndOfInstructions", "InvalidOpcode", "InvalidInstFormat", "InvalidPC"}

\* C13 (Spec): the run loop ends only in a cycle that yields the exit
\* environment call, an all-zero fetched word, InvalidOpcode,
\* InvalidInstFormat or InvalidPC, and it ends in the first such cycle; a
\* cycle that yields none of them is followed by the next cycle.
C13_Termination ==
    /\ phase = "halted" => result.kind \in ListedEndings
    /\ result.kind \in ListedEndings => phase = "halted"
    /\ (lastStep = "execute" /\ cycle < MaxCycles) => phase = "inc"

\* the access of a load or store that execute is about to run, or has just
\* run, lies inside memory
AccessInRange ==
    LET from == effective_address(regs_read(before.regs, inst.f.rs1), inst.f.imm)
    IN  CASE inst.kind = "I" /\ inst.op \in LoadI -> UnsignedBelow(from, MEM_SIZE)
                  /\ UnsignedBelow(from + SizeOfLoad(inst.op) - 1, MEM_SIZE)
          [] inst.kind = "S" -> UnsignedBelow(from, MEM_SIZE)
                  /\ UnsignedBelow(from + SizeOfStore(inst.op) - 1, MEM_SIZE)
          [] OTHER -> TRUE

\* C14 (Spec): in every reachable state of the run loop, the bytes that a
\* decoded load or store accesses lie in 0..MEM_SIZE-1, and no load or store
\* ends the run by the out-of-range panic of Memory::read / Memory::write.
C14_AccessInRange ==
    /\ phase = "execute" => AccessInRange
    /\ (lastStep = "execute" /\ OpcodeOf(raw_inst) \in {3, 35}) => result.kind # "Panic"

---------------------------------------------------------------------------
\* the register indices of a format lie in 0..31
IndicesInRange(f) == f.rd \in 0..31 /\ f.rs1 \in 0..31 /\ f.rs2 \in 0..31

\* C15 (SpecWords): for every fetched word, every register index that each
\* of the six formats takes from it, and the indices of the decoded
\* instruction, lie in 0..31, as do the fixed indices 10 and 17; so no
\* assert!(reg < 32) of Registers::read / Registers::write fails when the
\* instruction is executed.
C15_RegisterIndices ==
    /\ EXIT_CODE_REG \in 0..31
    /\ SYSCALL_REG \in 0..31
    /\ lastStep \in {"read", "decode", "execute"}
          => /\ \A f \in {RFormat(raw_inst), IFormat(raw_inst), SFormat(raw_inst),
                          BFormat(raw_inst), JFormat(raw_inst), UFormat(raw_inst)} :
                   IndicesInRange(f)
             /\ IndicesInRange(inst.f)
    /\ phase = "execute" => asserts_hold(inst)

\* sra x31, x31, x31 has been executed
C15_Witness ==
    /\ lastStep = "execute"
    /\ result.kind = "Running"
    /\ inst.kind = "R"
    /\ inst.op = "SRA"
    /\ inst.f.rd = 31
    /\ inst.f.rs1 = 31
    /\ inst.f.rs2 = 31

---------------------------------------------------------------------------
\* byte i of a vector (i below its length)
VecByte(v, i) == IF i \in DOMAIN v.at THEN v.at[i] ELSE 0

\* C16 (SpecMem): after load_program(bytes) with len(bytes) <= MEM_SIZE,
\* whatever the memory held before, memory[i] = bytes[i] for every
\* i < len(bytes) and memory[i] = 0 for every other i below MEM_SIZE.
C16_LoadProgram ==
    (lastStep = "memload" /\ loaded.len <= MEM_SIZE)
       => /\ DOMAIN mem \subseteq 0 .. (MEM_SIZE - 1)
          /\ \A i \in DOMAIN mem \cup DOMAIN before.mem \cup DOMAIN loaded.at :
                MemByte(mem, i) = IF i < loaded.len THEN VecByte(loaded, i) ELSE 0

\* three bytes have been loaded over a memory that held non-zero bytes at
\* address 1, where the vector has a zero, and at address 3, beyond its end
C16_Witness ==
    /\ lastStep = "memload"
    /\ loaded.len = 3
    /\ MemByte(before.mem, 1) # 0
    /\ MemByte(before.mem, 3) # 0
    /\ MemByte(mem, 0) = 120
    /\ MemByte(mem, 2) = 52

---------------------------------------------------------------------------
\* C17 (Spec): Cpu::run with a program image longer than MEM_SIZE bytes fails
\* in load_program as a precondition violation: no part of the image is
\* loaded and no cycle of the run loop is made.
C17_Oversized ==
    loaded.len > MEM_SIZE
       => /\ phase = "halted"
          /\ result.kind = "Panic"
          /\ lastStep = "load"
          /\ mem = Memory_new
          /\ cycle = 0

---------------------------------------------------------------------------
\* v mod 2^(8 * size), for a word v
LowBytes(v, size) ==
    CASE size = 1 -> v % 256
      [] size = 2 -> v % 65536
      [] size = 4 -> v

\* the low 8 * size bits of v, sign-extended to 32 bits
SignExtended(v, size) ==
    CASE size = 1 -> IF v % 256 >= 128 THEN (v % 256) - 256 ELSE v % 256
      [] size = 2 -> IF v % 65536 >= 32768 THEN (v % 65536) - 65536 ELSE v % 65536
      [] size = 4 -> v

\* C18 (SpecMem): for every size in {1, 2, 4}, every address a with
\* a + size <= MEM_SIZE, aligned or not, and every word v, after
\* write(a, size, v) read(a, size, unsigned = true) returns v mod 2^(8 * size)
\* and read(a, size, unsigned = false) returns that value sign-extended from
\* 8 * size bits to 32 bits.
C18_RoundTrip ==
    (lastStep = "memwrite" /\ lastArg[1] + lastArg[2] <= MEM_SIZE)
       => /\ result.kind = "Running"
          /\ mem_read(mem, lastArg[1], lastArg[2], TRUE) = LowBytes(lastArg[3], lastArg[2])
          /\ mem_read(mem, lastArg[1], lastArg[2], FALSE)
                = SignExtended(lastArg[3], lastArg[2])

\* the half word 0xFF80 of 0xFFFFFF80 has been written at the unaligned
\* address 3 over a memory that held other bytes there
C18_Witness ==
    /\ lastStep = "memwrite"
    /\ lastArg = <<3, 2, -128>>
    /\ MemByte(before.mem, 3) = 18
    /\ mem_read(mem, 3, 2, TRUE) = 65408
    /\ mem_read(mem, 3, 2, FALSE) = -128

\* C19 (SpecMem): memory is little-endian: after write(a, 4, v) the byte at
\* a + k is bits 8k..8k+7 of v for k in 0..3 (0x78, 0x56, 0x34, 0x12 for
\* v = 0x12345678), and after write(a, 2, v) the byte at a is the low byte of
\* v and the byte at a + 1 the next one.
C19_LittleEndian ==
    (lastStep = "memwrite" /\ result.kind = "Running")
       => LET a == lastArg[1]
              v == lastArg[3]
          IN  /\ lastArg[2] = 4
                 => /\ \A k \in 0..3 :
                         mem_read(mem, a + k, 1, TRUE) = (v \div (2 ^ (8 * k))) % 256
                    /\ v = 305419896
                         => /\ mem_read(mem, a, 1, TRUE) = 120
                            /\ mem_read(mem, a + 1, 1, TRUE) = 86
                            /\ mem_read(mem, a + 2, 1, TRUE) = 52
                            /\ mem_read(mem, a + 3, 1, TRUE) = 18
              /\ lastArg[2] = 2
                 => /\ mem_read(mem, a, 1, TRUE) = v % 256
                    /\ mem_read(mem, a + 1, 1, TRUE) = (v \div 256) % 256

\* 0x12345678 has been written as a word at the last word of memory
C19_Witness ==
    /\ lastStep = "memwrite"
    /\ lastArg = <<MEM_SIZE - 4, 4, 305419896>>
    /\ MemByte(mem, MEM_SIZE - 4) = 120
    /\ MemByte(mem, MEM_SIZE - 1) = 18

---------------------------------------------------------------------------
\* what a load with this funct3 yields from the bytes b0..b3 at its address
LoadedValue(f3, b0, b1, b2, b3) ==
    CASE f3 = 0 -> IF b0 >= 128 THEN b0 - 256 ELSE b0
      [] f3 = 1 -> IF b1 >= 128 THEN b1 * 256 + b0 - 65536 ELSE b1 * 256 + b0
      [] f3 = 2 -> (IF b3 >= 128 THEN b3 - 256 ELSE b3) * 16777216
                      + b2 * 65536 + b1 * 256 + b0
      [] f3 = 4 -> b0
      [] f3 = 5 -> b1 * 256 + b0

\* C20 (Spec): a load whose bytes lie inside memory reads at the effective
\* address (rs1 + imm) mod 2^32 and writes to rd: LB and LH the 8-/16-bit
\* value sign-extended, LBU and LHU zero-extended, LW the little-endian
\* word; with the byte 0xFF at the address LB yields 0xFFFFFFFF and LBU
\* 0x000000FF.  Memory and the PC are unchanged by the load, and so is every
\* register but rd.
C20_Load ==
    (lastStep = "execute" /\ OpcodeOf(raw_inst) = 3 /\ result.kind = "Running")
       => LET a     == wrapping_add(before.regs[Rs1Of(raw_inst)], inst.f.imm)
              b(k)  == MemByte(before.mem, a + k)
              f3    == Funct3Of(raw_inst)
              rd    == RdOf(raw_inst)
              value == LoadedValue(f3, b(0), b(1), b(2), b(3))
          IN  /\ rd # 0 => regs = [before.regs EXCEPT ![rd] = value]
              /\ rd = 0 => regs = before.regs
              /\ (rd # 0 /\ b(0) = 255 /\ f3 = 0) => regs[rd] = -1
              /\ (rd # 0 /\ b(0) = 255 /\ f3 = 4) => regs[rd] = 255
              /\ mem = before.mem
              /\ pc = fetched_pc + 4

\* lb x11, 3(x0) has read the byte 0xFF at address 3 and x11 is 0xFFFFFFFF
C20_Witness ==
    /\ lastStep = "execute"
    /\ OpcodeOf(raw_inst) = 3
    /\ Funct3Of(raw_inst) = 0
    /\ Rs1Of(raw_inst) = 0
    /\ inst.f.imm = 3
    /\ MemByte(before.mem, 3) = 255
    /\ before.regs[11] = 0
    /\ regs[11] = -1

---------------------------------------------------------------------------
\* the bytes an S-type instruction with this funct3 stores
StoredBytes(f3) ==
    CASE f3 = 0 -> 1
      [] f3 = 1 -> 2
      [] f3 = 2 -> 4

\* C21 (SpecExec): executing SB/SH/SW whose bytes lie inside memory stores
\* the low 1/2/4 bytes of register rs2 at the addresses (rs1 + imm) mod 2^32
\* onward, lowest byte first; every other memory byte keeps its value and no
\* register changes.  SB of x28 = 12 with rs1 = x0 and imm = 3 makes the byte
\* at address 3 read back as 12.
C21_Store ==
    (lastStep = "execute" /\ inst.kind = "S" /\ result.kind = "Running")
       => LET a == wrapping_add(regs_read(before.regs, inst.f.rs1), inst.f.imm)
              v == regs_read(before.regs, inst.f.rs2)
              n == StoredBytes(inst.f.funct3)
          IN  /\ \A k \in 0 .. (n - 1) : MemByte(mem, a + k) = (v \div (2 ^ (8 * k))) % 256
              /\ \A x \in (DOMAIN mem \cup DOMAIN before.mem) \ (a .. (a + n - 1)) :
                    MemByte(mem, x) = MemByte(before.mem, x)
              /\ regs = before.regs
              /\ (inst.f.funct3 = 0 /\ inst.f.rs1 = 0 /\ inst.f.imm = 3 /\ inst.f.rs2 = 28
                     /\ before.regs[28] = 12)
                    => mem_read(mem, 3, 1, TRUE) = 12

\* sb x28, 3(x0) has been executed with x28 = 12 on a zero memory
C21_Witness ==
    /\ lastStep = "execute"
    /\ inst.kind = "S"
    /\ inst.op = "SB"
    /\ inst.f.imm = 3
    /\ before.regs[28] = 12
    /\ before.mem = Memory_new
    /\ mem = (3 :> 12)

---------------------------------------------------------------------------
\* bit k (0..31) of a word
BitAt(w, k) == IF k = 31 THEN (IF w < 0 THEN 1 ELSE 0) ELSE (w \div (2 ^ k)) % 2

\* the fetched word is SLL / SLLI, SRL / SRLI or SRA / SRAI
IsShiftLeft == OpcodeOf(raw_inst) \in {51, 19} /\ Funct3Of(raw_inst) = 1
IsShiftRightLogical ==
    OpcodeOf(raw_inst) \in {51, 19} /\ Funct3Of(raw_inst) = 5 /\ Funct7Of(raw_inst) = 0
IsShiftRightArithmetic ==
    OpcodeOf(raw_inst) \in {51, 19} /\ Funct3Of(raw_inst) = 5 /\ Funct7Of(raw_inst) = 32

\* the second operand of the fetched R-type or arithmetic I-type instruction
SecondOperand ==
    IF OpcodeOf(raw_inst) = 51 THEN before.regs[Rs2Of(raw_inst)] ELSE inst.f.imm

\* C22 (Spec): for SLL, SRL, SRA and SLLI, SRLI, SRAI the result for second
\* operand s is the result for s & 0x1F, whatever the first operand and s: rd
\* holds the first operand moved by (s mod 32) bit positions, SRA / SRAI
\* filling with the sign bit, SRL / SRLI and SLL / SLLI with zeros.
C22_Shifts ==
    (lastStep = "execute" /\ RdOf(raw_inst) # 0
        /\ (IsShiftLeft \/ IsShiftRightLogical \/ IsShiftRightArithmetic))
       => LET a == before.regs[Rs1Of(raw_inst)]
              s == SecondOperand
              n == s % 32
              r == regs[RdOf(raw_inst)]
              op == IF inst.kind = "I" THEN RInstFrom(inst.op) ELSE inst.op
          IN  /\ result.kind = "Running"
              /\ RInst_op(op, a, s) = RInst_op(op, a, n)
              /\ IsShiftLeft
                    => \A k \in 0..31 : BitAt(r, k) = IF k >= n THEN BitAt(a, k - n) ELSE 0
              /\ IsShiftRightLogical
                    => \A k \in 0..31 : BitAt(r, k) = IF k + n <= 31 THEN BitAt(a, k + n) ELSE 0
              /\ IsShiftRightArithmetic
                    => \A k \in 0..31 :
                          BitAt(r, k) = IF k + n <= 31 THEN BitAt(a, k + n) ELSE BitAt(a, 31)

\* sra x11, x6, x10 has shifted 0x80000000 by 0x20007, that is by 7, to
\* 0xFF000000
C22_Witness ==
    /\ lastStep = "execute"
    /\ IsShiftRightArithmetic
    /\ OpcodeOf(raw_inst) = 51
    /\ before.regs[Rs1Of(raw_inst)] = MinI32
    /\ before.regs[Rs2Of(raw_inst)] = 131079
    /\ regs[11] = -16777216

\* (a + b) mod 2^32 and (a - b) mod 2^32 of two words
Sum32(a, b) ==
    IF a >= 0 /\ b > MaxI32 - a THEN (a - MaxI32 - 1) + (b - MaxI32 - 1)
    ELSE IF a < 0 /\ b < MinI32 - a THEN (a + MaxI32 + 1) + (b + MaxI32 + 1)
    ELSE a + b

Diff32(a, b) ==
    IF a >= 0 /\ b < 0 /\ a > MaxI32 + b THEN (a - MaxI32 - 1) - (b + MaxI32 + 1)
    ELSE IF a < 0 /\ b > 0 /\ a < MinI32 + b THEN (a + MaxI32 + 1) - (b - MaxI32 - 1)
    ELSE a - b

\* bits 20..31 of the fetched word, sign-extended from 12 bits
Imm12 ==
    LET u == (raw_inst \div 1048576) % 4096
    IN  IF u >= 2048 THEN u - 4096 ELSE u

\* C23 (Spec): ADD writes (rs1 + rs2) mod 2^32, ADDI (rs1 + imm) mod 2^32 with
\* imm the 12-bit immediate sign-extended to 32 bits, and SUB
\* (rs1 - rs2) mod 2^32 to rd, for all operand values; overflow and underflow
\* end in no error.
C23_AddSub ==
    /\ (lastStep = "execute" /\ OpcodeOf(raw_inst) = 51 /\ Funct3Of(raw_inst) = 0
           /\ Funct7Of(raw_inst) \in {0, 32})
          => /\ result.kind = "Running"
             /\ RdOf(raw_inst) # 0
                   => regs[RdOf(raw_inst)]
                         = IF Funct7Of(raw_inst) = 0
                           THEN Sum32(before.regs[Rs1Of(raw_inst)], before.regs[Rs2Of(raw_inst)])
                           ELSE Diff32(before.regs[Rs1Of(raw_inst)], before.regs[Rs2Of(raw_inst)])
    /\ (lastStep = "execute" /\ OpcodeOf(raw_inst) = 19 /\ Funct3Of(raw_inst) = 0)
          => /\ result.kind = "Running"
             /\ RdOf(raw_inst) # 0
                   => regs[RdOf(raw_inst)] = Sum32(before.regs[Rs1Of(raw_inst)], Imm12)

\* add x11, x5, x6 has added 0xFFFFFFFF and 0x80000000 to 0x7FFFFFFF
C23_Witness ==
    /\ lastStep = "execute"
    /\ OpcodeOf(raw_inst) = 51
    /\ Funct3Of(raw_inst) = 0
    /\ Funct7Of(raw_inst) = 0
    /\ before.regs[Rs1Of(raw_inst)] = -1
    /\ before.regs[Rs2Of(raw_inst)] = MinI32
    /\ regs[11] = MaxI32

---------------------------------------------------------------------------
\* a step of the cycle before execute: pc.inc, the read of the fetch, or the
\* zero check and decode
BeforeExecute == PcIncPanic \/ PcIncInvalid \/ PcIncOk \/ FetchRead \/ Decode

\* C24 as stated (Spec): within a cycle, decoding changes neither memory,
\* nor any register, nor the PC, and execute is the only step of the cycle
\* that writes memory, registers or the PC.
C24_Original == [][BeforeExecute => UNCHANGED <<pc, regs, mem>>]_vars

\* C24 amended (Spec): within a cycle, decoding (and the read of the fetch)
\* changes neither memory, nor any register, nor the PC; pc.inc changes only
\* the PC, advancing it by 4; execute is the only step of the cycle that
\* writes memory or registers.
C24_Amended ==
    [][/\ (Decode \/ FetchRead \/ PcIncPanic) => UNCHANGED <<pc, regs, mem>>
       /\ (PcIncOk \/ PcIncInvalid)
             => (pc' = wrapping_add(pc, 4) /\ UNCHANGED <<regs, mem>>)]_vars

\* a store has been decoded in the third cycle, after two executed
\* instructions changed registers, and the PC is its address plus 4
C24_Witness ==
    /\ lastStep = "decode"
    /\ phase = "execute"
    /\ inst.kind = "S"
    /\ cycle = 2
    /\ regs[5] = -1
    /\ regs[10] = 131079
    /\ fetched_pc = 8
    /\ pc = 12

---------------------------------------------------------------------------
\* C25 (SpecExample): run from the initial state, the program addi x5,x0,10;
\* addi x6,x0,-3; add x7,x5,x6; addi x17,x0,93; add x10,x0,x7; ecall loaded
\* at offset 0 terminates, and it does so with exit code 7 in the cycle of
\* its sixth fetch (five executed instructions, the sixth word fetched at
\* address 20), with x7 = 7.
C25_Example ==
    /\ [](loaded = ExampleProgram /\ phase = "halted"
            => /\ result = Returned("Exit", 7, NoFormat)
               /\ cycle = 5
               /\ fetched_pc = 20
               /\ regs[7] = 7)
    /\ [](loaded = ExampleProgram /\ phase = "inc"
            => ~inc_invalid(pc) /\ ~inc_overflows(pc))
    /\ (loaded = ExampleProgram) ~> (phase = "halted")

\* the example program has exited with code 7
C25_Witness ==
    /\ loaded = ExampleProgram
    /\ phase = "halted"
    /\ result.kind = "Exit"
    /\ result.arg = 7
    /\ regs[7] = 7
    /\ regs[6] = -3
    /\ cycle = 5

---------------------------------------------------------------------------
\* inst[hi:lo] as an unsigned number, bit by bit
RECURSIVE InstBits(_, _, _)
InstBits(w, hi, lo) ==
    IF hi < lo THEN 0 ELSE BitAt(w, lo) + 2 * InstBits(w, hi, lo + 1)

\* the n-bit pattern x as a signed 32-bit number
sign_extend(x, n) == IF x >= 2 ^ (n - 1) THEN x - 2 ^ n ELSE x

ImmI(w) == sign_extend(InstBits(w, 31, 20), 12)
ImmS(w) == sign_extend(InstBits(w, 31, 25) * 32 + InstBits(w, 11, 7), 12)
ImmB(w) ==
    sign_extend(BitAt(w, 31) * 4096 + BitAt(w, 7) * 2048
                  + InstBits(w, 30, 25) * 32 + InstBits(w, 11, 8) * 2, 13)
ImmJ(w) ==
    sign_extend(BitAt(w, 31) * 1048576 + InstBits(w, 19, 12) * 4096
                  + BitAt(w, 20) * 2048 + InstBits(w, 30, 21) * 2, 21)
ImmU(w) == sign_extend(InstBits(w, 31, 12), 20)

\* the immediate the format of the decoded instruction should carry
ImmOf(kind, w) ==
    CASE kind = "I" -> ImmI(w)
      [] kind = "S" -> ImmS(w)
      [] kind = "B" -> ImmB(w)
      [] kind = "J" -> ImmJ(w)
      [] kind = "U" -> ImmU(w)

\* C26 (SpecWords): for the fetched word, each format's decoded immediate is
\* the sign-extended pattern of the format's formula (I: inst[31:20], 12
\* bits; S: inst[31:25] and inst[11:7], 12 bits; B: inst[31], inst[7],
\* inst[30:25], inst[11:8] and a zero, 13 bits; J: inst[31], inst[19:12],
\* inst[20], inst[30:21] and a zero, 21 bits; U: inst[31:12], 20 bits,
\* unshifted), the instruction the decoder produced carries that immediate,
\* and every B and J immediate is even.
C26_Immediates ==
    /\ IFormat(raw_inst).imm = ImmI(raw_inst)
    /\ SFormat(raw_inst).imm = ImmS(raw_inst)
    /\ BFormat(raw_inst).imm = ImmB(raw_inst)
    /\ JFormat(raw_inst).imm = ImmJ(raw_inst)
    /\ UFormat(raw_inst).imm = ImmU(raw_inst)
    /\ BFormat(raw_inst).imm % 2 = 0
    /\ JFormat(raw_inst).imm % 2 = 0
    /\ (lastStep = "decode" /\ inst.kind \in {"I", "S", "B", "J", "U"})
         => inst.f.imm = ImmOf(inst.kind, raw_inst)

\* a branch whose immediate has every field bit set has been decoded: the
\* offset is -2
C26_Witness ==
    /\ lastStep = "decode"
    /\ inst.kind = "B"
    /\ raw_inst < 0
    /\ inst.f.imm = -2
    /\ JFormat(raw_inst).imm < 0
    /\ UFormat(raw_inst).imm < 0

---------------------------------------------------------------------------
\* an address at which no instruction word can be fetched
BeyondFetchBound(t) == t < 0 \/ t > MEM_SIZE - 4

\* the target of the fetched branch, JAL or JALR
TransferTarget ==
    IF OpcodeOf(raw_inst) = 103
    THEN wrapping_add(before.regs[Rs1Of(raw_inst)], inst.f.imm)
    ELSE wrapping_add(fetched_pc, inst.f.imm)

\* C27 (Spec): a taken branch, JAL or JALR whose target T exceeds
\* MEM_SIZE - 4 is executed without failing, leaving the PC at T and, for
\* JAL and JALR, the link in rd; the fetch of the next cycle then ends the
\* run with InvalidPC carrying T, no register or memory byte changed and no
\* memory read.
C27_TargetBeyondMemory ==
    /\ (lastStep = "execute" /\ TransfersControl /\ BeyondFetchBound(TransferTarget))
          => /\ phase = "inc"
             /\ result = Running
             /\ pc = TransferTarget
             /\ (OpcodeOf(raw_inst) \in {111, 103} /\ RdOf(raw_inst) # 0)
                   => regs[RdOf(raw_inst)] = fetched_pc + 4
    /\ (lastStep = "inc" /\ cycle >= 1 /\ TransfersControl /\ BeyondFetchBound(before.pc))
          => /\ phase = "halted"
             /\ result = Returned("InvalidPC", before.pc, NoFormat)
             /\ fetched_pc = before.pc
             /\ regs = before.regs
             /\ mem = before.mem

---------------------------------------------------------------------------
\* C28 (Spec): ProgramCounter::inc advances the stored PC before it checks
\* the bound, so a fetch refused with InvalidPC has moved the PC; whenever
\* run has ended with Exit, EndOfInstructions, InvalidOpcode,
\* InvalidInstFormat or InvalidPC the stored PC is the address of the last
\* attempted fetch plus 4 modulo 2^32.
C28_PcAtTermination ==
    /\ (phase = "halted" /\ result.kind \in ListedEndings)
          => pc = wrapping_add(fetched_pc, 4)
    /\ (lastStep = "inc" /\ result.kind = "InvalidPC")
          => /\ fetched_pc = before.pc
             /\ result.arg = before.pc
             /\ pc # before.pc
             /\ pc = wrapping_add(before.pc, 4)

\* a fetch at 0xFFFFFFFC has ended the run with InvalidPC and the PC has
\* wrapped to 0
C28_Witness ==
    /\ phase = "halted"
    /\ lastStep = "inc"
    /\ result = Returned("InvalidPC", -4, NoFormat)
    /\ fetched_pc = -4
    /\ pc = 0

---------------------------------------------------------------------------
\* the registers whose value differs from the one at the start of the cycle
ChangedRegs == { r \in 0..31 : regs[r] # before.regs[r] }

\* C29 (Spec): in every cycle memory changes only when the executed
\* instruction is SB, SH or SW; the cycle changes at most one register, the
\* rd of an R, I, U or J instruction, and none when rd = 0 or when the
\* instruction is a store, a branch, a fence or an environment call; the
\* steps of the cycle before execute change neither.
C29_CycleWrites ==
    /\ lastStep \in {"inc", "read", "decode"}
          => (mem = before.mem /\ regs = before.regs)
    /\ lastStep = "execute"
          => /\ mem # before.mem
                   => (inst.kind = "S" /\ inst.op \in {"SB", "SH", "SW"})
             /\ ChangedRegs \subseteq {RdOf(raw_inst)} \ {0}
             /\ ChangedRegs # {} => inst.kind \in {"R", "I", "U", "J"}
             /\ inst.kind \in {"S", "B", "SysCall"} => ChangedRegs = {}
             /\ OpcodeOf(raw_inst) \in {35, 99, 15, 115} => ChangedRegs = {}

\* a SW in the third cycle has changed memory and no register, after two
\* cycles that set registers
C29_Witness ==
    /\ lastStep = "execute"
    /\ inst.op = "SW"
    /\ cycle = 3
    /\ mem # before.mem
    /\ ChangedRegs = {}
    /\ regs # Registers_new

============================================================================
